---------------------------- MODULE Spec2Model ----------------------------
(***************************************************************************)
(* A concurrent in-memory registry (UsersCache) of mutable records         *)
(* (UserData).  Every record carries its own sync.RWMutex, the registry    *)
(* carries one more.  Goroutines call the registry's and the records'      *)
(* methods; every step below is one atomic step of one goroutine.          *)
(***************************************************************************)
EXTENDS Integers, Sequences, FiniteSets, TLC

(* ------------------------------ bounds -------------------------------- *)

\* goroutines that run concurrently
NGoroutines == 2
\* method calls started over one run, all goroutines together
MaxCalls == 2
\* rows the database mock hands to AddUserData at start-up (at most 4)
MaxLoad == 1
\* arguments of one later AddUserData call
MaxUsers == 1
\* rounds of main's loop (100 in the source)
Rounds == 2

(* ------------------------------ values -------------------------------- *)

Nil == "nil"

Goroutines == 1..NGoroutines

\* the records that exist: the four rows of LoadUsersDataFromDB, and one more
\* record a caller builds with the id and the values of the first row
Ents == {"r1", "r2", "r3", "r4", "x1"}

\* the argument list of LoadUsersDataFromDB's AddUserData call, in its order
DBRows == <<"r1", "r2", "r3", "r4">>

NewUserData(userId, displayName, gameLevel, experience) ==
    [UserId |-> userId, DisplayName |-> displayName, GameLevel |-> gameLevel,
     Experience |-> experience, UserInternalData |-> ""]

Constructed(e) ==
    CASE e = "r1" -> NewUserData("uid_001", "king", 1, 100)
      [] e = "r2" -> NewUserData("uid_002", "queen", 1, 110)
      [] e = "r3" -> NewUserData("uid_003", "soldier", 1, 120)
      [] e = "r4" -> NewUserData("uid_004", "John", 1, 120)
      [] OTHER    -> NewUserData("uid_001", "king", 1, 100)

Ids == {Constructed(e).UserId : e \in Ents}

\* ids the goroutines look up
LookupIds == {"uid_001", "uid_003"}

\* records later AddUserData calls are given
AddPool == {"r3", "x1"}

RECURSIVE SeqsUpTo(_, _)
SeqsUpTo(S, n) ==
    IF n = 0 THEN {<<>>}
    ELSE LET shorter == SeqsUpTo(S, n - 1)
         IN  shorter \cup {Append(s, x) : s \in {q \in shorter : Len(q) = n - 1}, x \in S}

AddArgs == SeqsUpTo(AddPool, MaxUsers) \ {<<>>}

(* --------------------------- sync.RWMutex ------------------------------ *)
(* w is the goroutine that has announced or holds the write lock (0: none),*)
(* readers the goroutines that hold the read lock, blocked the goroutines  *)
(* whose RLock found a writer announced and sleeps until its Unlock.       *)

NewRWMutex == [w |-> 0, readers |-> {}, blocked |-> {}]

\* a faulty RLock that does not yield to an announced writer
RLockOpIgnoringWriter(m, t) == [m EXCEPT !.readers = @ \cup {t}]

\* RLock: joins the readers, or sleeps behind an announced writer
RLockOp(m, t) ==
    IF m.w = 0 THEN [m EXCEPT !.readers = @ \cup {t}]
               ELSE [m EXCEPT !.blocked = @ \cup {t}]

\* RLock has returned to t
RLocked(m, t) == t \in m.readers

RUnlockOp(m, t) == [m EXCEPT !.readers = @ \ {t}]

\* Lock passes the writers' inner mutex only when no writer has it
CanLock(m) == m.w = 0

\* Lock: announces the writer; readers that arrive later sleep
LockOp(m, t) == [m EXCEPT !.w = t]

\* Lock has returned to t: the readers that were inside have left
Locked(m, t) == m.w = t /\ m.readers = {}

\* Unlock: wakes the sleeping readers, which then hold the read lock
UnlockOp(m, t) == [w |-> 0, readers |-> m.blocked, blocked |-> {}]

(* ------------------------------- state -------------------------------- *)

VARIABLES
    userDataById,   \* UsersCache.userDataById: id -> record, Nil when absent
    ucmu,           \* UsersCache.mu
    heap,           \* the fields of every record
    emu,            \* UserData.mu of every record
    pc,             \* where each goroutine stands
    prog,           \* what each goroutine runs ("none" between calls)
    u,              \* the record the goroutine works on
    key,            \* the userId argument of GetUserData
    users,          \* the argument list of AddUserData
    todo,           \* the entries a range loop has not visited yet
    tmp,            \* the value the callback's += has read
    acc,            \* mappedResults
    ret,            \* what the last finished call returned
    calls,          \* the calls started so far
    inserted,       \* history: per id, what the last returned AddUserData put
    atCall,         \* history: inserted[key] when GetUserData was called
    updated,        \* history: per record, the UpdateData calls that returned
    exp0,           \* history: per record, the Experience it was built with
    seen,           \* history: per goroutine and record, how often the range
                    \* loop it is in has handed the record to its callback
    spawned         \* per go statement of main's loop, the rounds that ran it

vars == <<userDataById, ucmu, heap, emu, pc, prog, u, key, users, todo, tmp,
          acc, ret, calls, inserted, atCall, updated, exp0, seen, spawned>>

NoRet == [kind |-> "none"]

\* the three go statements of main's loop
Bodies == {"read", "set", "upd"}

\* history: a range loop that has handed out nothing
NotSeen == [e \in Ents |-> 0]

\* the ids in the map, and the records they map to
Keys(m) == {i \in Ids : m[i] # Nil}
Entries(m) == {m[i] : i \in Keys(m)}

\* a faulty loop that keeps the entry an id already has
RECURSIVE PutAllKeepFirst(_, _)
PutAllKeepFirst(m, us) ==
    IF us = <<>> THEN m
    ELSE LET id == heap[Head(us)].UserId
         IN  PutAllKeepFirst(IF m[id] = Nil THEN [m EXCEPT ![id] = Head(us)] ELSE m,
                             Tail(us))

\* AddUserData's loop: later users overwrite earlier ones with the same id
RECURSIVE PutAll(_, _)
PutAll(m, us) ==
    IF us = <<>> THEN m
    ELSE PutAll([m EXCEPT ![heap[Head(us)].UserId] = Head(us)], Tail(us))

NewUsersCache == [i \in Ids |-> Nil]

(* ------------------------------ helpers ------------------------------- *)

\* where a goroutine stands once RLock / Lock was called on m
AfterRLock(m, t, in, wait) == IF RLocked(m, t) THEN in ELSE wait
AfterLock(m, t, in, wait) == IF Locked(m, t) THEN in ELSE wait

\* prog once the goroutine stands at next: a goroutine between calls runs nothing
ProgAt(t, next) == [prog EXCEPT ![t] = IF next = "idle" THEN "none" ELSE @]

\* a goroutine may start a call
CanStart(t) == pc[t] = "idle" /\ calls < MaxCalls

\* faulty tags that export UserInternalData
JsonTagAll(field) ==
    CASE field = "UserId"           -> "uid"
      [] field = "DisplayName"      -> "display_name"
      [] field = "GameLevel"        -> "game_level"
      [] field = "Experience"       -> "experience"
      [] field = "UserInternalData" -> "internal_data"

\* json.Marshal of a *UserData: the exported fields in declaration order,
\* each under its tag; the tag "-" leaves the field out
JsonTag(field) ==
    CASE field = "UserId"           -> "uid"
      [] field = "DisplayName"      -> "display_name"
      [] field = "GameLevel"        -> "game_level"
      [] field = "Experience"       -> "experience"
      [] field = "UserInternalData" -> "-"

\* how encoding/json writes a field: the int fields as numbers, the others
\* as quoted strings
JsonValue(field, v) ==
    IF field \in {"GameLevel", "Experience"} THEN <<"number", v>>
                                              ELSE <<"string", v>>

FieldOrder ==
    <<"UserId", "DisplayName", "GameLevel", "Experience", "UserInternalData">>

RECURSIVE Marshal(_, _)
Marshal(obj, fields) ==
    IF fields = <<>> THEN <<>>
    ELSE LET f == Head(fields)
             rest == Marshal(obj, Tail(fields))
         IN  IF JsonTag(f) = "-" THEN rest
             ELSE <<[name |-> JsonTag(f), value |-> JsonValue(f, obj[f])]>> \o rest

MustStringify(obj) == Marshal(obj, FieldOrder)

\* the callback main passes to UpdateData
Increment == 10
LevelOf(experience) == experience \div 100

\* the value main passes to SetExperience
SetValue == 199

\* a faulty filter that lets every user pass
keepAllFilter(displayName) == TRUE

\* excludeJohnFilter, on the name GetDisplayName returned
excludeJohnFilter(displayName) == displayName # "John"

\* userLevelMapper, on the level GetGameLevel returned
userLevelMapper(gameLevel) == [level |-> gameLevel, count |-> 1]

\* levelCountReducer: the counts summed per level
RECURSIVE SumCounts(_, _)
SumCounts(results, level) ==
    IF results = <<>> THEN 0
    ELSE (IF Head(results).level = level THEN Head(results).count ELSE 0)
         + SumCounts(Tail(results), level)

levelCountReducer(results) ==
    [l \in {results[i].level : i \in 1..Len(results)} |-> SumCounts(results, l)]

\* every order in which a range loop can hand out the set S
RECURSIVE Orders(_)
Orders(S) ==
    IF S = {} THEN {<<>>}
    ELSE UNION {{<<x>> \o o : o \in Orders(S \ {x})} : x \in S}

\* make([]*UserData, n): n nil pointers
RECURSIVE MakeSlice(_)
MakeSlice(n) == IF n = 0 THEN <<>> ELSE <<Nil>> \o MakeSlice(n - 1)

\* history: the record the last user with this id in the list
RECURSIVE LastWithId(_, _, _)
LastWithId(us, id, old) ==
    IF us = <<>> THEN old
    ELSE LET last == us[Len(us)]
         IN  IF heap[last].UserId = id THEN last
             ELSE LastWithId(SubSeq(us, 1, Len(us) - 1), id, old)

(* --------------------------- initial states ---------------------------- *)

\* the goroutines' part of the state, before any call
InitLocals ==
    /\ pc = [t \in Goroutines |-> "idle"]
    /\ prog = [t \in Goroutines |-> "none"]
    /\ u = [t \in Goroutines |-> Nil]
    /\ key = [t \in Goroutines |-> Nil]
    /\ users = [t \in Goroutines |-> <<>>]
    /\ todo = [t \in Goroutines |-> {}]
    /\ tmp = [t \in Goroutines |-> 0]
    /\ acc = [t \in Goroutines |-> <<>>]
    /\ ret = [t \in Goroutines |-> NoRet]
    /\ calls = 0
    /\ atCall = [t \in Goroutines |-> Nil]
    /\ seen = [t \in Goroutines |-> NotSeen]
    /\ spawned = [b \in Bodies |-> 0]

\* main after NewUsersCache and LoadUsersDataFromDB, the records being h and
\* the mock handing over the first n of its rows
LoadedWith(h, n) ==
    /\ heap = h
    /\ emu = [e \in Ents |-> NewRWMutex]
    /\ ucmu = NewRWMutex
    /\ userDataById = PutAll(NewUsersCache, SubSeq(DBRows, 1, n))
    /\ inserted = userDataById
    /\ updated = [e \in Ents |-> 0]
    /\ exp0 = [e \in Ents |-> heap[e].Experience]

Loaded(n) == LoadedWith([e \in Ents |-> Constructed(e)], n)

Init ==
    /\ InitLocals
    /\ \E n \in 0..MaxLoad : Loaded(n)

\* the whole mock database loaded, as main does
InitAgg ==
    /\ InitLocals
    /\ Loaded(Len(DBRows))

\* the first row built with an Experience next to a level boundary or not
UpdExps == {100, 190, 195, 290}

InitUpd ==
    /\ InitLocals
    /\ \E x \in UpdExps, n \in 1..MaxLoad :
          LoadedWith([e \in Ents |->
                        IF e = "r1" THEN NewUserData("uid_001", "king", LevelOf(x), x)
                        ELSE Constructed(e)], n)

\* records whose fields, UserInternalData included, a caller has set
ApiNames == {"king", "John"}
ApiSecrets == {"", "s3cr3t", "king"}

InitApi ==
    /\ InitLocals
    /\ \E name \in ApiNames, s1 \in ApiSecrets, s2 \in ApiSecrets :
          LoadedWith([e \in Ents |->
                        CASE e = "r1" -> [Constructed(e) EXCEPT !.DisplayName = name,
                                                                !.UserInternalData = s1]
                          [] e = "x1" -> [Constructed(e) EXCEPT !.DisplayName = name,
                                                                !.UserInternalData = s2]
                          [] OTHER -> Constructed(e)], 1)

\* the registry a caller has filled with the records h, through one
\* AddUserData(rows...)
LoadedRows(h, rows) ==
    /\ heap = h
    /\ emu = [e \in Ents |-> NewRWMutex]
    /\ ucmu = NewRWMutex
    /\ userDataById = PutAll(NewUsersCache, rows)
    /\ inserted = userDataById
    /\ updated = [e \in Ents |-> 0]
    /\ exp0 = [e \in Ents |-> heap[e].Experience]

\* registries an aggregation can meet: empty, holding John only, or the
\* whole mock database; the first row's level being 1 or 2
MRRows == {<<>>, <<"r4">>, DBRows}
MRExps == {100, 290}

InitMR ==
    /\ InitLocals
    /\ \E rows \in MRRows, x \in MRExps :
          LoadedRows([e \in Ents |->
                        IF e = "r1" THEN NewUserData("uid_001", "king", LevelOf(x), x)
                        ELSE Constructed(e)], rows)

(* ------------------------------ UserData ------------------------------ *)

localVars == <<key, users, todo, tmp, acc>>
cacheVars == <<userDataById, ucmu, inserted>>

\* where the goroutine goes on when a method of its record has returned
Resume(t) == IF prog[t] \in {"read"} THEN "pro" ELSE "idle"

\* ToApi() on a record the caller holds a reference to: u.mu.RLock()
ToApiRLock(t, userData) ==
    /\ CanStart(t)
    /\ calls' = calls + 1
    /\ prog' = [prog EXCEPT ![t] = "api"]
    /\ ret' = [ret EXCEPT ![t] = NoRet]
    /\ u' = [u EXCEPT ![t] = userData]
    /\ emu' = [emu EXCEPT ![userData] = RLockOp(@, t)]
    /\ pc' = [pc EXCEPT ![t] = AfterRLock(emu'[userData], t, "api", "api_w")]
    /\ UNCHANGED <<cacheVars, localVars, heap, atCall, updated, exp0, seen, spawned>>

\* ToApi, its RLock granted: marshals the record and releases it.  In the
\* callback of PerformReadOperation, UpdateData is next.  (of: the receiver.)
ToApi(t) ==
    /\ pc[t] = "api"
    /\ ret' = [ret EXCEPT ![t] = [kind |-> "api", of |-> u[t],
                                  out |-> MustStringify(heap[u[t]])]]
    /\ emu' = [emu EXCEPT ![u[t]] = RUnlockOp(@, t)]
    /\ pc' = [pc EXCEPT ![t] = IF prog[t] = "read" THEN "ud_call" ELSE "idle"]
    /\ u' = [u EXCEPT ![t] = IF prog[t] = "read" THEN @ ELSE Nil]
    /\ prog' = ProgAt(t, pc'[t])
    /\ UNCHANGED <<cacheVars, localVars, heap, calls, atCall, updated, exp0, seen, spawned>>

\* a faulty UpdateData that runs the callback without u.mu.Lock()
UpdateDataNoLock(t) ==
    /\ pc[t] = "ud_call"
    /\ pc' = [pc EXCEPT ![t] = "ud_load"]
    /\ ret' = [ret EXCEPT ![t] = NoRet]
    /\ UNCHANGED <<cacheVars, localVars, heap, emu, prog, u, calls, atCall, updated, exp0, seen, spawned>>

\* a faulty UpdateData that takes u.mu.RLock() where it must take Lock()
UpdateDataSharedLock(t) ==
    /\ pc[t] = "ud_call"
    /\ emu[u[t]].w = 0
    /\ emu' = [emu EXCEPT ![u[t]] = RLockOp(@, t)]
    /\ pc' = [pc EXCEPT ![t] = "ud_load"]
    /\ ret' = [ret EXCEPT ![t] = NoRet]
    /\ UNCHANGED <<cacheVars, localVars, heap, prog, u, calls, atCall, updated, exp0, seen, spawned>>

\* UpdateData: u.mu.Lock()
UpdateDataLock(t) ==
    /\ pc[t] = "ud_call"
    /\ CanLock(emu[u[t]])
    /\ emu' = [emu EXCEPT ![u[t]] = LockOp(@, t)]
    /\ pc' = [pc EXCEPT ![t] = AfterLock(emu'[u[t]], t, "ud_load", "ud_w")]
    /\ ret' = [ret EXCEPT ![t] = NoRet]
    /\ UNCHANGED <<cacheVars, localVars, heap, prog, u, calls, atCall, updated, exp0, seen, spawned>>

\* the callback's userdata.Experience += 10, its read
UpdateDataLoad(t) ==
    /\ pc[t] = "ud_load"
    /\ tmp' = [tmp EXCEPT ![t] = heap[u[t]].Experience]
    /\ pc' = [pc EXCEPT ![t] = "ud_store"]
    /\ UNCHANGED <<cacheVars, heap, emu, prog, u, key, users, todo, acc, ret,
                   calls, atCall, updated, exp0, seen, spawned>>

\* a faulty callback that writes to the record the registry now holds under
\* the id, not to the record it was handed
UpdateDataStoreThroughMap(t) ==
    /\ pc[t] = "ud_store"
    /\ heap' = [heap EXCEPT ![userDataById[heap[u[t]].UserId]].Experience =
                                tmp[t] + Increment]
    /\ tmp' = [tmp EXCEPT ![t] = 0]
    /\ pc' = [pc EXCEPT ![t] = "ud_level"]
    /\ UNCHANGED <<cacheVars, emu, prog, u, key, users, todo, acc, ret,
                   calls, atCall, updated, exp0, seen, spawned>>

\* the callback's userdata.Experience += 10, its write
UpdateDataStore(t) ==
    /\ pc[t] = "ud_store"
    /\ heap' = [heap EXCEPT ![u[t]].Experience = tmp[t] + Increment]
    /\ tmp' = [tmp EXCEPT ![t] = 0]
    /\ pc' = [pc EXCEPT ![t] = "ud_level"]
    /\ UNCHANGED <<cacheVars, emu, prog, u, key, users, todo, acc, ret,
                   calls, atCall, updated, exp0, seen, spawned>>

\* a faulty UpdateData that returns without u.mu.Unlock()
UpdateDataReturnLocked(t) ==
    /\ pc[t] = "ud_level"
    /\ heap' = [heap EXCEPT ![u[t]].GameLevel = LevelOf(heap[u[t]].Experience)]
    /\ pc' = [pc EXCEPT ![t] = Resume(t)]
    /\ u' = [u EXCEPT ![t] = Nil]
    /\ updated' = [updated EXCEPT ![u[t]] = @ + 1]
    /\ prog' = ProgAt(t, pc'[t])
    /\ UNCHANGED <<cacheVars, localVars, emu, ret, calls, atCall, exp0, seen, spawned>>

\* a faulty callback that also writes the record's UserId
UpdateDataReturnRenamed(t) ==
    /\ pc[t] = "ud_level"
    /\ heap' = [heap EXCEPT ![u[t]].GameLevel = LevelOf(heap[u[t]].Experience),
                            ![u[t]].UserId = "uid_002"]
    /\ emu' = [emu EXCEPT ![u[t]] = UnlockOp(@, t)]
    /\ pc' = [pc EXCEPT ![t] = Resume(t)]
    /\ u' = [u EXCEPT ![t] = Nil]
    /\ updated' = [updated EXCEPT ![u[t]] = @ + 1]
    /\ prog' = ProgAt(t, pc'[t])
    /\ UNCHANGED <<cacheVars, localVars, ret, calls, atCall, exp0, seen, spawned>>

\* the callback's userdata.GameLevel = int(userdata.Experience / 100), and the
\* deferred u.mu.Unlock()
UpdateDataReturn(t) ==
    /\ pc[t] = "ud_level"
    /\ heap' = [heap EXCEPT ![u[t]].GameLevel = LevelOf(heap[u[t]].Experience)]
    /\ emu' = [emu EXCEPT ![u[t]] = UnlockOp(@, t)]
    /\ pc' = [pc EXCEPT ![t] = Resume(t)]
    /\ u' = [u EXCEPT ![t] = Nil]
    /\ updated' = [updated EXCEPT ![u[t]] = @ + 1]
    /\ prog' = ProgAt(t, pc'[t])
    /\ UNCHANGED <<cacheVars, localVars, ret, calls, atCall, exp0, seen, spawned>>

\* SetExperience: u.mu.Lock()
SetExperienceLock(t) ==
    /\ pc[t] = "se_call"
    /\ CanLock(emu[u[t]])
    /\ emu' = [emu EXCEPT ![u[t]] = LockOp(@, t)]
    /\ pc' = [pc EXCEPT ![t] = AfterLock(emu'[u[t]], t, "se", "se_w")]
    /\ ret' = [ret EXCEPT ![t] = NoRet]
    /\ UNCHANGED <<cacheVars, localVars, heap, prog, u, calls, atCall, updated, exp0, seen, spawned>>

\* SetExperience, its Lock granted: the write and the deferred Unlock
SetExperience(t) ==
    /\ pc[t] = "se"
    /\ heap' = [heap EXCEPT ![u[t]].Experience = SetValue]
    /\ emu' = [emu EXCEPT ![u[t]] = UnlockOp(@, t)]
    /\ pc' = [pc EXCEPT ![t] = "idle"]
    /\ u' = [u EXCEPT ![t] = Nil]
    /\ prog' = ProgAt(t, "idle")
    /\ UNCHANGED <<cacheVars, localVars, ret, calls, atCall, updated, exp0, seen, spawned>>

\* a Lock on the goroutine's record returns: the readers have left
EntityLockReturns(t) ==
    /\ pc[t] \in {"ud_w", "se_w"}
    /\ Locked(emu[u[t]], t)
    /\ pc' = [pc EXCEPT ![t] = IF pc[t] = "ud_w" THEN "ud_load" ELSE "se"]
    /\ UNCHANGED <<cacheVars, localVars, heap, emu, prog, u, ret, calls, atCall, updated, exp0, seen, spawned>>

\* an RLock on the goroutine's record returns: the writer has unlocked
EntityRLockReturns(t) ==
    /\ pc[t] \in {"api_w", "gdn_w", "ggl_w"}
    /\ RLocked(emu[u[t]], t)
    /\ pc' = [pc EXCEPT ![t] = CASE pc[t] = "api_w" -> "api"
                                 [] pc[t] = "gdn_w" -> "gdn"
                                 [] pc[t] = "ggl_w" -> "ggl"]
    /\ UNCHANGED <<cacheVars, localVars, heap, emu, prog, u, ret, calls, atCall, updated, exp0, seen, spawned>>

(* ----------------------------- UsersCache ----------------------------- *)

\* a goroutine starts the call named p
Begin(t, p) ==
    /\ CanStart(t)
    /\ calls' = calls + 1
    /\ prog' = [prog EXCEPT ![t] = p]
    /\ ret' = [ret EXCEPT ![t] = NoRet]

\* GetUserData(userId): uc.mu.RLock().  p says what the caller does with the
\* record: nothing ("get"), SetExperience ("set") or UpdateData ("upd").
GetUserDataRLock(t, userId, p) ==
    /\ Begin(t, p)
    /\ ucmu' = RLockOp(ucmu, t)
    /\ pc' = [pc EXCEPT ![t] = AfterRLock(ucmu', t, "gud", "gud_w")]
    /\ key' = [key EXCEPT ![t] = userId]
    /\ atCall' = [atCall EXCEPT ![t] = inserted[userId]]
    /\ UNCHANGED <<userDataById, inserted, heap, emu, u, users, todo, tmp, acc,
                   updated, exp0, seen, spawned>>

\* a faulty GetUserData that returns without uc.mu.RUnlock()
GetUserDataNoRUnlock(t) ==
    /\ pc[t] = "gud"
    /\ LET userData == userDataById[key[t]]
           found == userData # Nil
       IN  /\ ret' = [ret EXCEPT ![t] =
                         [kind |-> "get", userData |-> userData, found |-> found]]
           /\ u' = [u EXCEPT ![t] = IF prog[t] = "get" THEN Nil ELSE userData]
           /\ pc' = [pc EXCEPT ![t] =
                        CASE found /\ prog[t] = "set" -> "se_call"
                          [] found /\ prog[t] = "upd" -> "ud_call"
                          [] OTHER -> "idle"]
    /\ key' = [key EXCEPT ![t] = Nil]
    /\ atCall' = [atCall EXCEPT ![t] = Nil]
    /\ prog' = ProgAt(t, pc'[t])
    /\ UNCHANGED <<userDataById, ucmu, inserted, heap, emu, users, todo, tmp,
                   acc, calls, updated, exp0, seen, spawned>>

\* a faulty GetUserData that, on a miss, stores a record for the id and
\* returns it as found
GetUserDataOrCreate(t) ==
    /\ pc[t] = "gud"
    /\ LET made == CHOOSE e \in Ents : heap[e].UserId = key[t]
           userData == IF userDataById[key[t]] = Nil THEN made
                       ELSE userDataById[key[t]]
       IN  /\ ret' = [ret EXCEPT ![t] =
                         [kind |-> "get", userData |-> userData, found |-> TRUE]]
           /\ userDataById' = [userDataById EXCEPT ![key[t]] = userData]
           /\ u' = [u EXCEPT ![t] = IF prog[t] = "get" THEN Nil ELSE userData]
           /\ pc' = [pc EXCEPT ![t] =
                        CASE prog[t] = "set" -> "se_call"
                          [] prog[t] = "upd" -> "ud_call"
                          [] OTHER -> "idle"]
    /\ ucmu' = RUnlockOp(ucmu, t)
    /\ key' = [key EXCEPT ![t] = Nil]
    /\ atCall' = [atCall EXCEPT ![t] = Nil]
    /\ prog' = ProgAt(t, pc'[t])
    /\ UNCHANGED <<inserted, heap, emu, users, todo, tmp, acc,
                   calls, updated, exp0, seen, spawned>>

\* GetUserData, its RLock granted: the lookup and the deferred RUnlock.  The
\* caller goes on to the record's method only when the record was found.
GetUserData(t) ==
    /\ pc[t] = "gud"
    /\ LET userData == userDataById[key[t]]
           found == userData # Nil
       IN  /\ ret' = [ret EXCEPT ![t] =
                         [kind |-> "get", userData |-> userData, found |-> found]]
           /\ u' = [u EXCEPT ![t] = IF prog[t] = "get" THEN Nil ELSE userData]
           /\ pc' = [pc EXCEPT ![t] =
                        CASE found /\ prog[t] = "set" -> "se_call"
                          [] found /\ prog[t] = "upd" -> "ud_call"
                          [] OTHER -> "idle"]
    /\ ucmu' = RUnlockOp(ucmu, t)
    /\ key' = [key EXCEPT ![t] = Nil]
    /\ atCall' = [atCall EXCEPT ![t] = Nil]
    /\ prog' = ProgAt(t, pc'[t])
    /\ UNCHANGED <<userDataById, inserted, heap, emu, users, todo, tmp, acc,
                   calls, updated, exp0, seen, spawned>>

\* a faulty AddUserData that takes uc.mu.RLock() where it must take Lock()
AddUserDataSharedLock(t, us) ==
    /\ Begin(t, "add")
    /\ ucmu' = RLockOp(ucmu, t)
    /\ pc' = [pc EXCEPT ![t] = AfterRLock(ucmu', t, "aud", "aud_w")]
    /\ users' = [users EXCEPT ![t] = us]
    /\ UNCHANGED <<userDataById, inserted, heap, emu, u, key, todo, tmp, acc,
                   atCall, updated, exp0, seen, spawned>>

\* AddUserData(users...): uc.mu.Lock()
AddUserDataLock(t, us) ==
    /\ Begin(t, "add")
    /\ CanLock(ucmu)
    /\ ucmu' = LockOp(ucmu, t)
    /\ pc' = [pc EXCEPT ![t] = AfterLock(ucmu', t, "aud", "aud_w")]
    /\ users' = [users EXCEPT ![t] = us]
    /\ UNCHANGED <<userDataById, inserted, heap, emu, u, key, todo, tmp, acc,
                   atCall, updated, exp0, seen, spawned>>

\* a faulty AddUserData that stores its users with their fields cleared
AddUserDataCleared(t) ==
    /\ pc[t] = "aud"
    /\ userDataById' = PutAll(userDataById, users[t])
    /\ heap' = [e \in Ents |->
                   IF \E i \in 1..Len(users[t]) : users[t][i] = e
                   THEN NewUserData(heap[e].UserId, "", 0, 0) ELSE heap[e]]
    /\ inserted' = [i \in Ids |-> LastWithId(users[t], i, inserted[i])]
    /\ ucmu' = UnlockOp(ucmu, t)
    /\ pc' = [pc EXCEPT ![t] = "idle"]
    /\ users' = [users EXCEPT ![t] = <<>>]
    /\ prog' = ProgAt(t, "idle")
    /\ UNCHANGED <<emu, u, key, todo, tmp, acc, ret, calls, atCall, updated, exp0, seen, spawned>>

\* a faulty AddUserData that keeps only the users of this call
AddUserDataReplacing(t) ==
    /\ pc[t] = "aud"
    /\ userDataById' = PutAll(NewUsersCache, users[t])
    /\ inserted' = [i \in Ids |-> LastWithId(users[t], i, inserted[i])]
    /\ ucmu' = UnlockOp(ucmu, t)
    /\ pc' = [pc EXCEPT ![t] = "idle"]
    /\ users' = [users EXCEPT ![t] = <<>>]
    /\ prog' = ProgAt(t, "idle")
    /\ UNCHANGED <<heap, emu, u, key, todo, tmp, acc, ret, calls, atCall,
                   updated, exp0, seen, spawned>>

\* AddUserData, its Lock granted: the loop over users and the deferred Unlock
AddUserData(t) ==
    /\ pc[t] = "aud"
    /\ userDataById' = PutAll(userDataById, users[t])
    /\ inserted' = [i \in Ids |-> LastWithId(users[t], i, inserted[i])]
    /\ ucmu' = UnlockOp(ucmu, t)
    /\ pc' = [pc EXCEPT ![t] = "idle"]
    /\ users' = [users EXCEPT ![t] = <<>>]
    /\ prog' = ProgAt(t, "idle")
    /\ UNCHANGED <<heap, emu, u, key, todo, tmp, acc, ret, calls, atCall,
                   updated, exp0, seen, spawned>>

\* a faulty PerformReadOperation that ranges over the map without uc.mu.RLock()
PerformReadOperationNoLock(t) ==
    /\ Begin(t, "read")
    /\ pc' = [pc EXCEPT ![t] = "pro"]
    /\ todo' = [todo EXCEPT ![t] = Entries(userDataById)]
    /\ UNCHANGED <<userDataById, ucmu, inserted, heap, emu, u, key, users, tmp, acc,
                   atCall, updated, exp0, seen, spawned>>

\* PerformReadOperation(operation): uc.mu.RLock()
PerformReadOperationRLock(t) ==
    /\ Begin(t, "read")
    /\ ucmu' = RLockOp(ucmu, t)
    /\ pc' = [pc EXCEPT ![t] = AfterRLock(ucmu', t, "pro", "pro_w")]
    /\ todo' = [todo EXCEPT ![t] = Entries(userDataById)]
    /\ UNCHANGED <<userDataById, inserted, heap, emu, u, key, users, tmp, acc,
                   atCall, updated, exp0, seen, spawned>>

\* the range loop hands out the next entry and calls operation(userData);
\* main's callback starts with userData.ToApi(), which starts with u.mu.RLock()
PerformReadOperationVisit(t) ==
    /\ pc[t] = "pro"
    /\ \E userData \in todo[t] :
          /\ todo' = [todo EXCEPT ![t] = @ \ {userData}]
          /\ u' = [u EXCEPT ![t] = userData]
          /\ emu' = [emu EXCEPT ![userData] = RLockOp(@, t)]
          /\ pc' = [pc EXCEPT ![t] = AfterRLock(emu'[userData], t, "api", "api_w")]
    /\ seen' = [seen EXCEPT ![t][u'[t]] = @ + 1]
    /\ UNCHANGED <<cacheVars, heap, prog, key, users, tmp, acc, ret, calls, atCall, updated, exp0, spawned>>

\* the range loop is over: the deferred uc.mu.RUnlock()
PerformReadOperationReturn(t) ==
    /\ pc[t] = "pro"
    /\ todo[t] = {}
    /\ ucmu' = RUnlockOp(ucmu, t)
    /\ pc' = [pc EXCEPT ![t] = "idle"]
    /\ prog' = ProgAt(t, "idle")
    /\ seen' = [seen EXCEPT ![t] = NotSeen]
    /\ UNCHANGED <<userDataById, inserted, heap, emu, u, localVars, ret, calls,
                   atCall, updated, exp0, spawned>>

\* GetSafeCopySlice(): uc.mu.RLock()
GetSafeCopySliceRLock(t) ==
    /\ Begin(t, "copy")
    /\ ucmu' = RLockOp(ucmu, t)
    /\ pc' = [pc EXCEPT ![t] = AfterRLock(ucmu', t, "gsc", "gsc_w")]
    /\ UNCHANGED <<userDataById, inserted, heap, emu, u, localVars, atCall, updated, exp0, seen, spawned>>

\* GetSafeCopySlice, its RLock granted: make, the appends of the range loop in
\* the order the map hands the entries out, and the deferred RUnlock
GetSafeCopySlice(t) ==
    /\ pc[t] = "gsc"
    /\ \E order \in Orders(Entries(userDataById)) :
          ret' = [ret EXCEPT ![t] =
                     [kind |-> "copy",
                      res |-> MakeSlice(Cardinality(Keys(userDataById))) \o order]]
    /\ ucmu' = RUnlockOp(ucmu, t)
    /\ pc' = [pc EXCEPT ![t] = "idle"]
    /\ prog' = ProgAt(t, "idle")
    /\ UNCHANGED <<userDataById, inserted, heap, emu, u, localVars, calls,
                   atCall, updated, exp0, seen, spawned>>

\* MapReduceUsersWithFilter(filter, mapper, reducer): uc.mu.RLock()
MapReduceRLock(t) ==
    /\ Begin(t, "mr")
    /\ ucmu' = RLockOp(ucmu, t)
    /\ pc' = [pc EXCEPT ![t] = AfterRLock(ucmu', t, "mr", "mr_w")]
    /\ todo' = [todo EXCEPT ![t] = Entries(userDataById)]
    /\ UNCHANGED <<userDataById, inserted, heap, emu, u, key, users, tmp, acc,
                   atCall, updated, exp0, seen, spawned>>

\* the range loop hands out the next entry and calls filter(userData);
\* excludeJohnFilter calls GetDisplayName, which starts with u.mu.RLock()
MapReduceVisit(t) ==
    /\ pc[t] = "mr"
    /\ \E userData \in todo[t] :
          /\ todo' = [todo EXCEPT ![t] = @ \ {userData}]
          /\ u' = [u EXCEPT ![t] = userData]
          /\ emu' = [emu EXCEPT ![userData] = RLockOp(@, t)]
          /\ pc' = [pc EXCEPT ![t] = AfterRLock(emu'[userData], t, "gdn", "gdn_w")]
    /\ seen' = [seen EXCEPT ![t][u'[t]] = @ + 1]
    /\ UNCHANGED <<cacheVars, heap, prog, key, users, tmp, acc, ret, calls, atCall, updated, exp0, spawned>>

\* GetDisplayName, its RLock granted, returns the name and releases the
\* record; the filter decides; when it passes, userLevelMapper calls
\* GetGameLevel, which starts with u.mu.RLock()
GetDisplayName(t) ==
    /\ pc[t] = "gdn"
    /\ LET released == RUnlockOp(emu[u[t]], t)
       IN  IF excludeJohnFilter(heap[u[t]].DisplayName)
           THEN /\ emu' = [emu EXCEPT ![u[t]] = RLockOp(released, t)]
                /\ pc' = [pc EXCEPT ![t] = AfterRLock(emu'[u[t]], t, "ggl", "ggl_w")]
                /\ u' = u
           ELSE /\ emu' = [emu EXCEPT ![u[t]] = released]
                /\ pc' = [pc EXCEPT ![t] = "mr"]
                /\ u' = [u EXCEPT ![t] = Nil]
    /\ UNCHANGED <<cacheVars, localVars, heap, prog, ret, calls, atCall, updated, exp0, seen, spawned>>

\* GetGameLevel, its RLock granted, returns the level and releases the record;
\* the mapper's result is appended to mappedResults
GetGameLevel(t) ==
    /\ pc[t] = "ggl"
    /\ acc' = [acc EXCEPT ![t] = Append(@, userLevelMapper(heap[u[t]].GameLevel))]
    /\ emu' = [emu EXCEPT ![u[t]] = RUnlockOp(@, t)]
    /\ pc' = [pc EXCEPT ![t] = "mr"]
    /\ u' = [u EXCEPT ![t] = Nil]
    /\ UNCHANGED <<cacheVars, heap, prog, key, users, todo, tmp, ret, calls, atCall, updated, exp0, seen, spawned>>

\* a faulty MapReduceUsersWithFilter that reduces and returns before the
\* range loop is over
MapReduceReturnEarly(t) ==
    /\ pc[t] = "mr"
    /\ ret' = [ret EXCEPT ![t] = [kind |-> "mr", value |-> levelCountReducer(acc[t])]]
    /\ acc' = [acc EXCEPT ![t] = <<>>]
    /\ todo' = [todo EXCEPT ![t] = {}]
    /\ ucmu' = RUnlockOp(ucmu, t)
    /\ pc' = [pc EXCEPT ![t] = "idle"]
    /\ prog' = ProgAt(t, "idle")
    /\ seen' = [seen EXCEPT ![t] = NotSeen]
    /\ UNCHANGED <<userDataById, inserted, heap, emu, u, key, users, tmp,
                   calls, atCall, updated, exp0, spawned>>

\* the range loop is over: the reducer, and the deferred uc.mu.RUnlock()
MapReduceReturn(t) ==
    /\ pc[t] = "mr"
    /\ todo[t] = {}
    /\ ret' = [ret EXCEPT ![t] = [kind |-> "mr", value |-> levelCountReducer(acc[t])]]
    /\ acc' = [acc EXCEPT ![t] = <<>>]
    /\ ucmu' = RUnlockOp(ucmu, t)
    /\ pc' = [pc EXCEPT ![t] = "idle"]
    /\ prog' = ProgAt(t, "idle")
    /\ seen' = [seen EXCEPT ![t] = NotSeen]
    /\ UNCHANGED <<userDataById, inserted, heap, emu, u, key, users, todo, tmp,
                   calls, atCall, updated, exp0, spawned>>

\* uc.mu.Lock() returns: the readers have left
CacheLockReturns(t) ==
    /\ pc[t] = "aud_w"
    /\ Locked(ucmu, t)
    /\ pc' = [pc EXCEPT ![t] = "aud"]
    /\ UNCHANGED <<cacheVars, localVars, heap, emu, prog, u, ret, calls, atCall, updated, exp0, seen, spawned>>

\* uc.mu.RLock() returns: the writer has unlocked.  A range loop starts on
\* the map as it is now.
CacheRLockReturns(t) ==
    /\ pc[t] \in {"gud_w", "pro_w", "gsc_w", "mr_w"}
    /\ RLocked(ucmu, t)
    /\ pc' = [pc EXCEPT ![t] = CASE pc[t] = "gud_w" -> "gud"
                                 [] pc[t] = "pro_w" -> "pro"
                                 [] pc[t] = "gsc_w" -> "gsc"
                                 [] pc[t] = "mr_w"  -> "mr"]
    /\ todo' = [todo EXCEPT ![t] = IF pc[t] \in {"pro_w", "mr_w"}
                                   THEN Entries(userDataById) ELSE @]
    /\ UNCHANGED <<cacheVars, heap, emu, prog, u, key, users, tmp, acc, ret,
                   calls, atCall, updated, exp0, seen, spawned>>

(* ------------------- goroutines that never stop calling ---------------- *)

\* GetUserData(userId) by a goroutine that looks ids up over and over: as
\* GetUserDataRLock, the call not counted
LookupRLock(t, userId) ==
    /\ pc[t] = "idle"
    /\ prog' = [prog EXCEPT ![t] = "get"]
    /\ ret' = [ret EXCEPT ![t] = NoRet]
    /\ ucmu' = RLockOp(ucmu, t)
    /\ pc' = [pc EXCEPT ![t] = AfterRLock(ucmu', t, "gud", "gud_w")]
    /\ key' = [key EXCEPT ![t] = userId]
    /\ atCall' = [atCall EXCEPT ![t] = inserted[userId]]
    /\ UNCHANGED <<userDataById, inserted, heap, emu, u, users, todo, tmp, acc,
                   calls, updated, exp0, seen, spawned>>

\* MapReduceUsersWithFilter by a goroutine that aggregates over and over: as
\* MapReduceRLock, the call not counted
AggregateRLock(t) ==
    /\ pc[t] = "idle"
    /\ prog' = [prog EXCEPT ![t] = "mr"]
    /\ ret' = [ret EXCEPT ![t] = NoRet]
    /\ ucmu' = RLockOp(ucmu, t)
    /\ pc' = [pc EXCEPT ![t] = AfterRLock(ucmu', t, "mr", "mr_w")]
    /\ todo' = [todo EXCEPT ![t] = Entries(userDataById)]
    /\ UNCHANGED <<userDataById, inserted, heap, emu, u, key, users, tmp, acc,
                   calls, atCall, updated, exp0, seen, spawned>>

\* AddUserData(users...) is called; uc.mu.Lock() is its first statement and
\* may find another writer at the lock
AddUserDataCall(t, us) ==
    /\ Begin(t, "add")
    /\ pc' = [pc EXCEPT ![t] = "aud_call"]
    /\ users' = [users EXCEPT ![t] = us]
    /\ UNCHANGED <<cacheVars, heap, emu, u, key, todo, tmp, acc,
                   atCall, updated, exp0, seen, spawned>>

\* uc.mu.Lock() of a called AddUserData passes the writers' mutex
AddUserDataAcquire(t) ==
    /\ pc[t] = "aud_call"
    /\ CanLock(ucmu)
    /\ ucmu' = LockOp(ucmu, t)
    /\ pc' = [pc EXCEPT ![t] = AfterLock(ucmu', t, "aud", "aud_w")]
    /\ UNCHANGED <<userDataById, inserted, heap, emu, prog, u, localVars, ret,
                   calls, atCall, updated, exp0, seen, spawned>>

(* ------------------------------ main's loop ---------------------------- *)

\* go usersCache.PerformReadOperation(func ...): the goroutine of one round
\* starts with uc.mu.RLock()
GoPerformReadOperation(t) ==
    /\ pc[t] = "idle"
    /\ spawned["read"] < Rounds
    /\ spawned' = [spawned EXCEPT !["read"] = @ + 1]
    /\ prog' = [prog EXCEPT ![t] = "read"]
    /\ ret' = [ret EXCEPT ![t] = NoRet]
    /\ ucmu' = RLockOp(ucmu, t)
    /\ pc' = [pc EXCEPT ![t] = AfterRLock(ucmu', t, "pro", "pro_w")]
    /\ todo' = [todo EXCEPT ![t] = Entries(userDataById)]
    /\ UNCHANGED <<userDataById, inserted, heap, emu, u, key, users, tmp, acc,
                   calls, atCall, updated, exp0, seen>>

\* go func() { u, _ := usersCache.GetUserData("uid_001"); ... }(): the
\* goroutine of one round starts with uc.mu.RLock(); b says whether it goes
\* on to SetExperience(199) or to UpdateData
GoGetUserData(t, b) ==
    /\ pc[t] = "idle"
    /\ spawned[b] < Rounds
    /\ spawned' = [spawned EXCEPT ![b] = @ + 1]
    /\ prog' = [prog EXCEPT ![t] = b]
    /\ ret' = [ret EXCEPT ![t] = NoRet]
    /\ ucmu' = RLockOp(ucmu, t)
    /\ pc' = [pc EXCEPT ![t] = AfterRLock(ucmu', t, "gud", "gud_w")]
    /\ key' = [key EXCEPT ![t] = "uid_001"]
    /\ atCall' = [atCall EXCEPT ![t] = inserted["uid_001"]]
    /\ UNCHANGED <<userDataById, inserted, heap, emu, u, users, todo, tmp, acc,
                   calls, updated, exp0, seen>>

GoSetExperience(t) == GoGetUserData(t, "set")

GoUpdateData(t) == GoGetUserData(t, "upd")

(* --------------------------- specifications ---------------------------- *)

\* a goroutine starts a call
Start(t) ==
    \/ \E id \in LookupIds, p \in {"get", "set", "upd"} : GetUserDataRLock(t, id, p)
    \/ \E us \in AddArgs : AddUserDataLock(t, us)
    \/ PerformReadOperationRLock(t)
    \/ GetSafeCopySliceRLock(t)
    \/ MapReduceRLock(t)

\* a goroutine goes on with the call it is in
Step(t) ==
    \/ GetUserData(t)
    \/ AddUserData(t)
    \/ PerformReadOperationVisit(t)
    \/ PerformReadOperationReturn(t)
    \/ GetSafeCopySlice(t)
    \/ MapReduceVisit(t)
    \/ GetDisplayName(t)
    \/ GetGameLevel(t)
    \/ MapReduceReturn(t)
    \/ CacheLockReturns(t)
    \/ CacheRLockReturns(t)
    \/ ToApi(t)
    \/ UpdateDataLock(t)
    \/ UpdateDataLoad(t)
    \/ UpdateDataStore(t)
    \/ UpdateDataReturn(t)
    \/ SetExperienceLock(t)
    \/ SetExperience(t)
    \/ EntityLockReturns(t)
    \/ EntityRLockReturns(t)

Next == \E t \in Goroutines : Start(t) \/ Step(t)

Spec == Init /\ [][Next]_vars

\* goroutines that only call UpdateData, through GetUserData, as main's third
\* goroutine does
NextUpd ==
    \E t \in Goroutines :
        \/ \E id \in LookupIds : GetUserDataRLock(t, id, "upd")
        \/ GetUserData(t)
        \/ UpdateDataLock(t)
        \/ UpdateDataLoad(t)
        \/ UpdateDataStore(t)
        \/ UpdateDataReturn(t)

SpecUpd == InitUpd /\ [][NextUpd]_vars

\* goroutines that only call MapReduceUsersWithFilter on the loaded database
NextAgg ==
    \E t \in Goroutines :
        \/ MapReduceRLock(t)
        \/ MapReduceVisit(t)
        \/ GetDisplayName(t)
        \/ GetGameLevel(t)
        \/ MapReduceReturn(t)

SpecAgg == InitAgg /\ [][NextAgg]_vars

\* goroutines that only call ToApi
NextApi ==
    \E t \in Goroutines :
        \/ \E userData \in {"r1", "x1"} : ToApiRLock(t, userData)
        \/ ToApi(t)

SpecApi == InitApi /\ [][NextApi]_vars

\* goroutines that call the records' methods as main's goroutines do, and
\* ToApi and the getters next to them, on records built next to a level
\* boundary or not
NextRec ==
    \E t \in Goroutines :
        \/ ToApiRLock(t, "r1")
        \/ \E id \in LookupIds, p \in {"set", "upd"} : GetUserDataRLock(t, id, p)
        \/ PerformReadOperationRLock(t)
        \/ MapReduceRLock(t)
        \/ GetUserData(t)
        \/ PerformReadOperationVisit(t)
        \/ PerformReadOperationReturn(t)
        \/ MapReduceVisit(t)
        \/ GetDisplayName(t)
        \/ GetGameLevel(t)
        \/ MapReduceReturn(t)
        \/ ToApi(t)
        \/ UpdateDataLock(t)
        \/ UpdateDataLoad(t)
        \/ UpdateDataStore(t)
        \/ UpdateDataReturn(t)
        \/ SetExperienceLock(t)
        \/ SetExperience(t)
        \/ EntityLockReturns(t)
        \/ EntityRLockReturns(t)

SpecRec == InitUpd /\ [][NextRec]_vars

\* goroutines that only call MapReduceUsersWithFilter, on the registries of
\* InitMR
SpecMR == InitMR /\ [][NextAgg]_vars

\* goroutines that run UpdateData through GetUserData, the traversals and
\* AddUserData
NextInd ==
    \E t \in Goroutines :
        \/ \E id \in LookupIds : GetUserDataRLock(t, id, "upd")
        \/ \E us \in AddArgs : AddUserDataLock(t, us)
        \/ PerformReadOperationRLock(t)
        \/ MapReduceRLock(t)
        \/ GetUserData(t)
        \/ AddUserData(t)
        \/ PerformReadOperationVisit(t)
        \/ PerformReadOperationReturn(t)
        \/ MapReduceVisit(t)
        \/ GetDisplayName(t)
        \/ GetGameLevel(t)
        \/ MapReduceReturn(t)
        \/ CacheLockReturns(t)
        \/ CacheRLockReturns(t)
        \/ ToApi(t)
        \/ UpdateDataLock(t)
        \/ UpdateDataLoad(t)
        \/ UpdateDataStore(t)
        \/ UpdateDataReturn(t)
        \/ EntityLockReturns(t)
        \/ EntityRLockReturns(t)

\* a registry filled with the two records the goroutines look up
IndRows == <<"r1", "r3">>

InitInd ==
    /\ InitLocals
    /\ LoadedRows([e \in Ents |-> Constructed(e)], IndRows)

SpecInd == InitInd /\ [][NextInd]_vars

\* goroutines of which some look up and aggregate without end, while others
\* insert, traverse, copy, set and update; every goroutine inside a call is
\* scheduled again and again
NextLive ==
    \E t \in Goroutines :
        \/ \E id \in LookupIds : LookupRLock(t, id)
        \/ AggregateRLock(t)
        \/ \E us \in AddArgs : AddUserDataCall(t, us)
        \/ \E id \in LookupIds, p \in {"set", "upd"} : GetUserDataRLock(t, id, p)
        \/ PerformReadOperationRLock(t)
        \/ GetSafeCopySliceRLock(t)
        \/ AddUserDataAcquire(t)
        \/ Step(t)

Fairness == \A t \in Goroutines : WF_vars(Step(t) \/ AddUserDataAcquire(t))

SpecLive == Init /\ [][NextLive]_vars /\ Fairness

\* main: the loaded database and, per round, the three goroutines of the loop
NextDemo ==
    \E t \in Goroutines :
        \/ GoPerformReadOperation(t)
        \/ GoSetExperience(t)
        \/ GoUpdateData(t)
        \/ GetUserData(t)
        \/ PerformReadOperationVisit(t)
        \/ PerformReadOperationReturn(t)
        \/ ToApi(t)
        \/ UpdateDataLock(t)
        \/ UpdateDataLoad(t)
        \/ UpdateDataStore(t)
        \/ UpdateDataReturn(t)
        \/ SetExperienceLock(t)
        \/ SetExperience(t)
        \/ EntityLockReturns(t)
        \/ EntityRLockReturns(t)

SpecDemo == InitAgg /\ [][NextDemo]_vars

(* ------------------------------- claims -------------------------------- *)

\* the write lock of m is held, no reader inside
HeldExclusively(m) == m.w # 0 /\ m.readers = {}

AllReturned == \A t \in Goroutines : pc[t] = "idle"

\* C1: with goroutines that only call UpdateData (Experience += 10, GameLevel =
\* Experience / 100) on a record, GameLevel equals Experience / 100 in every
\* state in which the record's lock is not held exclusively, the state after
\* all calls have returned included.
C1_LevelFollowsExperience ==
    \A e \in Ents :
        ~HeldExclusively(emu[e]) => heap[e].GameLevel = LevelOf(heap[e].Experience)

\* two UpdateData calls on the first row have returned and moved its level
C1_Witness ==
    /\ AllReturned
    /\ updated["r1"] = 2
    /\ heap["r1"].GameLevel # LevelOf(exp0["r1"])

\* C2: when the goroutines only call UpdateData, once all calls have returned
\* every record's Experience is the Experience it was built with plus 10 for
\* each UpdateData call made on it.
C2_NoLostUpdate ==
    AllReturned =>
        \A e \in Ents : heap[e].Experience = exp0[e] + Increment * updated[e]

\* two UpdateData calls on the first row have returned
C2_Witness ==
    /\ AllReturned
    /\ updated["r1"] = 2
    /\ heap["r1"].Experience = exp0["r1"] + 2 * Increment

\* C3: a GetUserData(id) called after an AddUserData holding a record with that
\* id has returned finds the id, and returns the record the most recent
\* returned AddUserData put under it.
C3_ReadAfterWrite ==
    [][\A t \in Goroutines :
          (pc[t] = "gud" /\ pc'[t] # "gud" /\ atCall[t] # Nil) =>
              /\ ret'[t].found
              /\ ret'[t].userData = inserted[key[t]]]_vars

\* a lookup returned the record a later AddUserData put over the loaded one
C3_Witness ==
    \E t \in Goroutines :
        /\ ret[t].kind = "get"
        /\ ret[t].found
        /\ ret[t].userData = "x1"

\* C4: GetSafeCopySlice on a registry of N entries returns a slice of length N
\* that holds each entry's record once, and no nil element.
C4_SnapshotComplete ==
    [][\A t \in Goroutines :
          (pc[t] = "gsc" /\ pc'[t] = "idle") =>
              LET res == ret'[t].res
              IN  /\ Len(res) = Cardinality(Keys(userDataById))
                  /\ {res[i] : i \in 1..Len(res)} = Entries(userDataById)
                  /\ \A i \in 1..Len(res) : res[i] # Nil
                  /\ \A i, j \in 1..Len(res) : res[i] = res[j] => i = j]_vars

\* C5: on the registry of the four loaded rows, MapReduceUsersWithFilter with
\* excludeJohnFilter, userLevelMapper and levelCountReducer returns {1: 3},
\* whatever the order of the range loop.
C5_LevelCounts ==
    \A t \in Goroutines :
        ret[t].kind = "mr" => ret[t].value = [l \in {1} |-> 3]

\* an aggregation over the four rows has returned
C5_Witness ==
    /\ Cardinality(Keys(userDataById)) = 4
    /\ \E t \in Goroutines : ret[t].kind = "mr" /\ pc[t] = "idle"

\* the goroutine has asked for, or holds, the lock of some record
OnRecordLock(t) ==
    \E e \in Ents : t \in emu[e].readers \cup emu[e].blocked \/ emu[e].w = t

\* the goroutine has asked for, or holds, the registry's lock
OnCacheLock(m, t) == t \in m.readers \cup m.blocked \/ m.w = t

\* C6: no goroutine asks for the registry's lock, waits for it or is granted
\* it while it holds or awaits the lock of a record; the two locks nest only
\* registry first, record second.
C6_LockOrder ==
    [][\A t \in Goroutines :
          /\ (~OnCacheLock(ucmu, t) /\ OnCacheLock(ucmu', t)) => ~OnRecordLock(t)
          /\ (OnRecordLock(t) /\ OnCacheLock(ucmu, t)) => RLocked(ucmu, t)]_vars

\* a traversal holds the registry's read lock and a record's write lock
C6_Witness ==
    \E t \in Goroutines :
        /\ RLocked(ucmu, t)
        /\ pc[t] = "ud_store"
        /\ Locked(emu[u[t]], t)

\* C7: whenever some goroutine is inside a call, some goroutine inside a call
\* can take a step.
C7_NoDeadlock ==
    (\E t \in Goroutines : pc[t] # "idle") => ENABLED (\E t \in Goroutines : Step(t))

\* an insertion waits for a traversal whose callback is inside UpdateData
C7_Witness ==
    \E t1, t2 \in Goroutines :
        /\ pc[t1] = "aud_w"
        /\ prog[t2] = "read"
        /\ pc[t2] = "ud_store"

\* the goroutine is inside AddUserData, its Lock granted
InInsert(t) == pc[t] = "aud"

\* the goroutine is inside a reading method of the registry, its RLock granted
InRead(t) ==
    \/ pc[t] \in {"gud", "gsc"}
    \/ prog[t] \in {"read", "mr"} /\ pc[t] \notin {"pro_w", "mr_w", "idle"}

\* C8: while a goroutine is inside AddUserData, no other goroutine is inside
\* GetUserData, PerformReadOperation, GetSafeCopySlice,
\* MapReduceUsersWithFilter or AddUserData.
C8_WriterExcludes ==
    \A t1, t2 \in Goroutines :
        (t1 # t2 /\ InInsert(t1)) => ~InRead(t2) /\ ~InInsert(t2)

\* an insertion is inside while a reading call waits at the lock
C8_Witness ==
    \E t1, t2 \in Goroutines :
        /\ InInsert(t1)
        /\ pc[t2] \in {"gud_w", "pro_w", "gsc_w", "mr_w"}

\* two goroutines are inside reading methods of the registry at once
C8_ReadersOverlap ==
    \E t1, t2 \in Goroutines : t1 # t2 /\ InRead(t1) /\ InRead(t2)

\* what GetUserData and the getters show of the registry
Observable(m, h) ==
    [i \in Ids |->
        IF m[i] = Nil THEN [found |-> FALSE]
        ELSE [found |-> TRUE, displayName |-> h[m[i]].DisplayName,
              gameLevel |-> h[m[i]].GameLevel, experience |-> h[m[i]].Experience]]

\* every user of the list has the id and the field values of a present entry
SameAsPresent(us) ==
    \A i \in 1..Len(us) :
        LET present == userDataById[heap[us[i]].UserId]
        IN  present # Nil /\ heap[present] = heap[us[i]]

\* C9: an AddUserData whose users have the ids and the field values of
\* entries already present leaves unchanged what GetUserData and the getters
\* show for every id.
C9_IdempotentReinsert ==
    [][\A t \in Goroutines :
          (pc[t] = "aud" /\ pc'[t] = "idle" /\ SameAsPresent(users[t])) =>
              Observable(userDataById', heap') = Observable(userDataById, heap)]_vars

\* the copy of the first row was put over the untouched first row
C9_Witness ==
    /\ calls = 1
    /\ AllReturned
    /\ userDataById["uid_001"] = "x1"
    /\ heap["x1"] = heap["r1"]

\* the values ToApi's output carries, and the names it carries them under
OutValues(out) == {out[i].value : i \in 1..Len(out)}
OutNames(out) == [i \in 1..Len(out) |-> out[i].name]

\* the four exported fields as the output writes them
Exported(obj) ==
    <<<<"string", obj.UserId>>, <<"string", obj.DisplayName>>,
      <<"number", obj.GameLevel>>, <<"number", obj.Experience>>>>

C11_LookupMiss ==
    [][\A t \in Goroutines :
          (pc[t] = "gud" /\ pc'[t] # "gud" /\ inserted[key[t]] = Nil) =>
              /\ ret'[t] = [kind |-> "get", userData |-> Nil, found |-> FALSE]
              /\ pc'[t] = "idle"
              /\ userDataById' = userDataById]_vars

\* a lookup of an id that was never put has returned not found
C11_Witness ==
    \E t \in Goroutines :
        /\ ret[t] = [kind |-> "get", userData |-> Nil, found |-> FALSE]
        /\ pc[t] = "idle"
        /\ inserted["uid_003"] = Nil
        /\ userDataById["uid_001"] # Nil

\* the goroutine is inside SetExperience or UpdateData on e, its Lock granted
InWriter(t, e) == u[t] = e /\ pc[t] \in {"ud_load", "ud_store", "ud_level", "se"}

\* the goroutine is inside ToApi or a getter on e, its RLock granted
InReader(t, e) == u[t] = e /\ pc[t] \in {"api", "gdn", "ggl"}

\* the number an output of ToApi carries under a name
OutNumber(out, name) == out[CHOOSE i \in 1..Len(out) : out[i].name = name].value[2]

\* C12: while a goroutine is inside SetExperience or UpdateData on a record,
\* no other goroutine is inside a getter, ToApi, SetExperience or UpdateData
\* on that record; so no ToApi returns the values of a record between the two
\* writes of an UpdateData callback: an output whose level is not its
\* experience / 100 carries the experience a SetExperience wrote.
C12_PerEntitySerializable ==
    /\ \A t1, t2 \in Goroutines : \A e \in Ents :
           (t1 # t2 /\ InWriter(t1, e)) => ~InWriter(t2, e) /\ ~InReader(t2, e)
    /\ \A t \in Goroutines :
           ret[t].kind = "api" =>
               \/ OutNumber(ret[t].out, "game_level")
                      = LevelOf(OutNumber(ret[t].out, "experience"))
               \/ OutNumber(ret[t].out, "experience") = SetValue

\* a ToApi waits at the lock of a record whose UpdateData callback has
\* written the experience, over a level boundary, and not yet the level
C12_Witness ==
    \E t1, t2 \in Goroutines :
        /\ pc[t1] = "ud_level"
        /\ heap[u[t1]].GameLevel # LevelOf(heap[u[t1]].Experience)
        /\ pc[t2] = "api_w"
        /\ u[t2] = u[t1]

\* the goroutine is inside PerformReadOperation, its RLock granted
InTraversal(t) == prog[t] = "read" /\ pc[t] \notin {"pro_w", "idle"}

\* history: every record of S handed out once, no other record at all
OnceEach(S) == [e \in Ents |-> IF e \in S THEN 1 ELSE 0]

\* C13: from the moment its RLock is granted until it returns, through every
\* callback, PerformReadOperation holds the registry's read lock and no
\* AddUserData changes the map; when it returns, its callback has been
\* called exactly once on every entry of the map, the map being the one it
\* found when the lock was granted.
C13_StableTraversal ==
    [][\A t \in Goroutines :
          InTraversal(t) =>
              /\ RLocked(ucmu, t)
              /\ userDataById' = userDataById
              /\ (pc[t] = "pro" /\ pc'[t] = "idle") =>
                     seen[t] = OnceEach(Entries(userDataById))]_vars

\* a traversal of a map of two entries has called its callback on both
C13_Witness ==
    \E t \in Goroutines :
        /\ prog[t] = "read"
        /\ pc[t] = "pro"
        /\ todo[t] = {}
        /\ Cardinality(Keys(userDataById)) = 2
        /\ seen[t] = OnceEach(Entries(userDataById))

\* an insertion waits at the lock while a traversal is between two callbacks
C13_InsertWaits ==
    \E t1, t2 \in Goroutines :
        /\ InTraversal(t1)
        /\ pc[t2] = "aud_w"

\* the goroutine is inside MapReduceUsersWithFilter, its RLock granted
InMapReduce(t) == prog[t] = "mr" /\ pc[t] \notin {"mr_w", "idle"}

\* the entries excludeJohnFilter lets pass
Passing == {e \in Entries(userDataById) : heap[e].DisplayName # "John"}

\* per level of a passing entry, the number of passing entries of that level
CountsByLevel ==
    [l \in {heap[e].GameLevel : e \in Passing} |->
        Cardinality({e \in Passing : heap[e].GameLevel = l})]

\* C14: one MapReduceUsersWithFilter call holds the registry's read lock from
\* the grant to the return; when it returns the filter has been called exactly
\* once on every entry of the map, the mapper exactly once on exactly the
\* entries that passed, and the value returned is the reducer's, called on
\* those mapper results once the loop is over (the empty result when no
\* entry passes or the map is empty); the read lock goes only with that value.
C14_MapReduceProtocol ==
    [][\A t \in Goroutines :
          InMapReduce(t) =>
              /\ RLocked(ucmu, t)
              /\ Len(acc[t]) =
                     Cardinality({e \in Passing : seen[t][e] = 1 /\ u[t] # e})
              /\ ~RLocked(ucmu', t) =>
                     /\ seen[t] = OnceEach(Entries(userDataById))
                     /\ Len(acc[t]) = Cardinality(Passing)
                     /\ ret'[t] = [kind |-> "mr", value |-> CountsByLevel]]_vars

\* an aggregation over the four rows, the first at level 2, has returned one
\* user of level 2 and two of level 1
C14_Witness ==
    \E t \in Goroutines :
        /\ pc[t] = "idle"
        /\ ret[t] = [kind |-> "mr", value |-> (1 :> 2) @@ (2 :> 1)]

\* an aggregation over a map that holds John only has returned the empty result
C14_NonePasses ==
    \E t \in Goroutines :
        /\ pc[t] = "idle"
        /\ Keys(userDataById) = {"uid_004"}
        /\ ret[t].kind = "mr"
        /\ DOMAIN ret[t].value = {}

\* the goroutine is inside UpdateData, its Lock granted
InUpdateData(t) == pc[t] \in {"ud_load", "ud_store", "ud_level"}

\* the goroutine has called UpdateData on a record GetUserData gave it
CalledUpdateData(t) ==
    prog[t] = "upd" /\ pc[t] \in {"ud_call", "ud_w", "ud_load", "ud_store", "ud_level"}

\* C15: the registry's lock does not order the records' mutations: a
\* goroutine that calls UpdateData on a record GetUserData gave it neither
\* holds nor awaits the registry's lock, and waits, if it waits, only for
\* goroutines that hold that record's own lock.  So two goroutines can be
\* inside UpdateData on two records at once, and one can be inside UpdateData
\* while another holds the registry's lock (the states of C15_Witness,
\* C15_TwoLookups, C15_DuringInsert and C15_DuringMapReduce).
C15_LockDomainsIndependent ==
    \A t \in Goroutines :
        CalledUpdateData(t) =>
            /\ ~OnCacheLock(ucmu, t)
            /\ (pc[t] \in {"ud_call", "ud_w"}
                   /\ ~ENABLED (UpdateDataLock(t) \/ EntityLockReturns(t))) =>
                   \/ emu[u[t]].w \notin {0, t}
                   \/ emu[u[t]].readers \ {t} # {}

\* two goroutines are inside UpdateData on two records at once: one on a
\* record GetUserData gave it, the other in the callback of a
\* PerformReadOperation that holds the registry's read lock
C15_Witness ==
    \E t1, t2 \in Goroutines :
        /\ prog[t1] = "upd" /\ InUpdateData(t1)
        /\ prog[t2] = "read" /\ InUpdateData(t2)
        /\ u[t1] # u[t2]
        /\ Locked(emu[u[t1]], t1) /\ Locked(emu[u[t2]], t2)
        /\ RLocked(ucmu, t2)

\* two goroutines are inside UpdateData on the records two lookups gave them
C15_TwoLookups ==
    \E t1, t2 \in Goroutines :
        /\ prog[t1] = "upd" /\ InUpdateData(t1)
        /\ prog[t2] = "upd" /\ InUpdateData(t2)
        /\ u[t1] # u[t2]

\* a goroutine is inside UpdateData while another is inside AddUserData
C15_DuringInsert ==
    \E t1, t2 \in Goroutines :
        /\ prog[t1] = "upd" /\ InUpdateData(t1)
        /\ pc[t2] = "aud" /\ Locked(ucmu, t2)

\* a goroutine is inside UpdateData while another is inside
\* MapReduceUsersWithFilter
C15_DuringMapReduce ==
    \E t1, t2 \in Goroutines :
        /\ prog[t1] = "upd" /\ InUpdateData(t1)
        /\ prog[t2] = "mr" /\ pc[t2] = "mr" /\ RLocked(ucmu, t2)

\* the registry holds another record under the id of e: e was overwritten,
\* or was never put
Replaced(e) == inserted[heap[e].UserId] \notin {Nil, e}

\* C16: once AddUserData has put a record over another with the same id, no
\* GetUserData and no traversal hands out the overwritten record; a goroutine
\* that still holds the overwritten record goes on with it, and its steps
\* change no field and no lock of any other record, the new one included.
C16_Overwrite ==
    [][\A t \in Goroutines :
          /\ (pc[t] = "gud" /\ pc'[t] # "gud" /\ ret'[t].found) =>
                 ~Replaced(ret'[t].userData)
          /\ (pc[t] \in {"pro", "mr"} /\ pc'[t] \notin {"pro", "mr", "idle"}) =>
                 ~Replaced(u'[t])
          /\ (pc'[t] # pc[t] /\ u[t] # Nil /\ Replaced(u[t])) =>
                 \A e \in Ents \ {u[t]} : heap'[e] = heap[e] /\ emu'[e] = emu[e]]_vars

\* a goroutine is inside UpdateData on the first row, which GetUserData gave
\* it before AddUserData put the copy over it; the copy is untouched
C16_Witness ==
    \E t \in Goroutines :
        /\ pc[t] = "ud_level"
        /\ u[t] = "r1"
        /\ userDataById["uid_001"] = "x1"
        /\ heap["r1"].Experience = exp0["r1"] + Increment
        /\ heap["x1"] = Constructed("x1")
        /\ emu["x1"] = NewRWMutex

\* C17: every record keeps the UserId it was built with, and every key of the
\* registry's map is the UserId of the record it maps to, whatever AddUserData
\* calls, SetExperience calls and UpdateData callbacks have run.
C17_KeyIsUserId ==
    /\ \A e \in Ents : heap[e].UserId = Constructed(e).UserId
    /\ \A id \in Keys(userDataById) : heap[userDataById[id]].UserId = id

\* the copy was put over the first row and SetExperience has run on it
C17_Witness ==
    /\ AllReturned
    /\ userDataById["uid_001"] = "x1"
    /\ heap["x1"].Experience = SetValue

\* C18: no step takes an id out of the registry's map; only the returning
\* step of AddUserData changes the map at all, so GetUserData,
\* PerformReadOperation, GetSafeCopySlice and MapReduceUsersWithFilter leave
\* it unchanged; and GetUserData finds exactly the ids the map holds, so an id
\* found once is found by every later GetUserData.
C18_MembershipGrows ==
    [][/\ Keys(userDataById) \subseteq Keys(userDataById')
       /\ userDataById' # userDataById =>
              \E t \in Goroutines : pc[t] = "aud" /\ pc'[t] = "idle"
       /\ \A t \in Goroutines :
              (pc[t] = "gud" /\ pc'[t] # "gud") =>
                  ret'[t].found = (key[t] \in Keys(userDataById))]_vars

\* a lookup has found an id and the map has grown by another id
C18_Witness ==
    /\ AllReturned
    /\ Keys(userDataById) = {"uid_001", "uid_003"}
    /\ \E t \in Goroutines : ret[t].kind = "get" /\ ret[t].found

\* the goroutine has called AddUserData and its Lock has not returned
InsertPending(t) == pc[t] \in {"aud_call", "aud_w"}

\* the pending AddUserData cannot go on
InsertBlocked(t) ==
    InsertPending(t) /\ ~ENABLED (AddUserDataAcquire(t) \/ CacheLockReturns(t))

\* C19 as stated: a pending AddUserData is blocked only while some goroutine
\* holds the registry's read lock.
C19_BlockedOnlyByReaders ==
    \A t \in Goroutines : InsertBlocked(t) => ucmu.readers # {}

\* every called AddUserData gets the registry's lock and returns, and every
\* other call returns
EveryCallReturns ==
    \A t \in Goroutines :
        /\ InsertPending(t) ~> pc[t] = "aud"
        /\ pc[t] # "idle" ~> pc[t] = "idle"

\* C19 as amended: a pending AddUserData is blocked only while some goroutine
\* holds the registry's read lock or another AddUserData holds or awaits its
\* write lock; under fair scheduling every called AddUserData gets the lock
\* and returns, and every other call returns, even when other goroutines
\* start lookups and aggregations without end.
C19_InsertProgress ==
    /\ [](\A t \in Goroutines :
             InsertBlocked(t) => ucmu.readers # {} \/ ucmu.w \notin {0, t})
    /\ EveryCallReturns

\* an insertion, the only counted call, waits at the lock behind an
\* aggregation of a goroutine that aggregates without end
C19_Witness ==
    \E t1, t2 \in Goroutines :
        /\ pc[t1] = "aud_w"
        /\ calls = 1
        /\ prog[t2] = "mr"
        /\ RLocked(ucmu, t2)

\* C20: in main's workload (per round a PerformReadOperation whose callback
\* adds 10 to every record's Experience, a SetExperience(199) on uid_001 and
\* an UpdateData adding 10 on uid_001, all as goroutines) no step lowers the
\* Experience of a record.
C20_ExperienceMonotone ==
    [][\A e \in Ents : heap'[e].Experience >= heap[e].Experience]_vars

=============================================================================
